---- MODULE Spec2Model ----
(***************************************************************************)
(* Memory-enhanced conversational agent: the two module-level dictionaries *)
(* chat_store and long_term_memory, the functions get_chat_history,        *)
(* update_long_term_memory, get_long_term_memory and chat, and the example *)
(* cells of the notebook.                                                  *)
(*                                                                         *)
(* Python objects are modelled with identity: a dictionary maps a key to   *)
(* an object id, and a heap maps the id to the object's contents.  Strings *)
(* are TLA+ strings, so len(), f-strings and ". ".join are computed.       *)
(***************************************************************************)
EXTENDS Integers, Sequences, FiniteSets, TLC

\* ---------------------------------------------------------------- bounds
\* calls made by the caller in the sequential specification Spec
MaxCalls == 4
\* update_long_term_memory calls made in SpecFifo
MaxRecords == 7

\* ------------------------------------------------------ program constants
\* `len(input) > 20`
RetentionThreshold == 20
\* `> 5` and `[-5:]`
LongTermCapacity == 5

\* ----------------------------------------------------------------- inputs
SessionIds == {"user_123", "user_456"}
\* the empty string, which a caller may pass as a session id too
EmptyId == ""
\* every key a caller passes
Keys == SessionIds \cup {EmptyId}

Exactly20 == "12345678901234567890"
Exactly21 == "123456789012345678901"
Hello == "Hello! My name is Alice."
Weather == "What's the weather like today?"
Sunny == "I love sunny days."
Remember == "Do you remember my name?"

\* inputs of the caller in Spec: the two boundary strings and one more
Inputs == {Exactly20, Exactly21, Hello}
\* inputs of the caller in SpecFifo: the inputs of the example cell
FifoInputs == {Hello, Weather, Sunny, Remember}
\* what the language model may answer
Responses == {"Hello, Alice! How can I assist you today?"}

\* ------------------------------------------------------------------ state
VARIABLES
    chat_store,        \* dict: session id -> id of a ChatMessageHistory
    long_term_memory,  \* dict: session id -> id of a list of str
    messages,          \* heap: ChatMessageHistory id -> its .messages
    lists,             \* heap: list id -> its elements
    last,              \* the call that returned last, with its result
    calls,             \* number of calls the caller of Spec has made
    recorded,          \* per session, the inputs given to update_long_term_memory
    appended,          \* per session, the turns handed to the history
    pc,                \* per thread, the line it is about to execute
    frame              \* per thread, the arguments and locals of its call

vars == <<chat_store, long_term_memory, messages, lists, last, calls,
          recorded, appended, pc, frame>>

\* ------------------------------------------------------- Python primitives
\* the empty dict {}
EmptyDict == [k \in {} |-> <<>>]

\* (variant: one object shared by every key)
DictSetShared(d, k, v) == [x \in (DOMAIN d) \cup {k} |-> v]

\* (variant: the dict rebuilt with the one key)
DictSetOnly(d, k, v) == [x \in {k} |-> v]

\* d[k] = v
DictSet(d, k, v) == [x \in (DOMAIN d) \cup {k} |-> IF x = k THEN v ELSE d[x]]

\* the identity of the next object allocated for key sid on heap h
NewId(h, sid) == <<sid, Cardinality({o \in DOMAIN h : o[1] = sid}) + 1>>

\* no object
NoObj == <<>>

\* f"User said: {input}"
Fact(input) == "User said: " \o input

\* (variant: the length test left out, every input stored)
AcceptsAny(input) == Len(input) >= 0

\* (variant: the comparison written as >=)
AcceptsAtThreshold(input) == Len(input) >= RetentionThreshold

\* len(input) > 20
Accepts(input) == Len(input) > RetentionThreshold

\* (variant: the store trimmed only beyond six)
OverCapacityLate(l) == Len(l) > LongTermCapacity + 1

\* len(l) > 5
OverCapacity(l) == Len(l) > LongTermCapacity

\* (variant: l[:5], the first five kept)
FirstFive(l) ==
    IF Len(l) <= LongTermCapacity THEN l ELSE SubSeq(l, 1, LongTermCapacity)

\* l[-5:]
LastFive(l) ==
    IF Len(l) <= LongTermCapacity THEN l
    ELSE SubSeq(l, Len(l) - LongTermCapacity + 1, Len(l))

\* (variant: ", ".join(l))
RECURSIVE JoinComma(_)
JoinComma(l) ==
    IF l = <<>> THEN ""
    ELSE IF Len(l) = 1 THEN l[1]
    ELSE l[1] \o ", " \o JoinComma(Tail(l))

\* ". ".join(l)
RECURSIVE Join(_)
Join(l) ==
    IF l = <<>> THEN ""
    ELSE IF Len(l) = 1 THEN l[1]
    ELSE l[1] \o ". " \o Join(Tail(l))

\* a message of the history
HumanMessage(content) == [type |-> "human", content |-> content]
AIMessage(content) == [type |-> "ai", content |-> content]

\* ---------------------------------------------- memory as one value (d, h)
\* m.d is long_term_memory, m.h is the heap of lists
Mem(d, h) == [d |-> d, h |-> h]

\* long_term_memory[session_id] = []
StoreEmptyList(m, session_id) ==
    LET id == NewId(m.h, session_id)
    IN  Mem(DictSet(m.d, session_id, id), DictSet(m.h, id, <<>>))

\* ref.append(x), in place
AppendInPlace(m, ref, x) == Mem(m.d, [m.h EXCEPT ![ref] = Append(@, x)])

\* long_term_memory[session_id] = l, l a new list
StoreNewList(m, session_id, l) ==
    LET id == NewId(m.h, session_id)
    IN  Mem(DictSet(m.d, session_id, id), DictSet(m.h, id, l))

\* def update_long_term_memory(session_id, input, output), run to completion
update_long_term_memory(m, session_id, input) ==
    LET m1 == IF session_id \notin DOMAIN m.d
              THEN StoreEmptyList(m, session_id) ELSE m
        m2 == IF Accepts(input)
              THEN AppendInPlace(m1, m1.d[session_id], Fact(input)) ELSE m1
        m3 == IF OverCapacity(m2.h[m2.d[session_id]])
              THEN StoreNewList(m2, session_id, LastFive(m2.h[m2.d[session_id]]))
              ELSE m2
    IN  m3

\* long_term_memory.get(session_id, [])
GetOrEmpty(d, h, session_id) ==
    IF session_id \in DOMAIN d THEN h[d[session_id]] ELSE <<>>

\* def get_long_term_memory(session_id)
get_long_term_memory(d, h, session_id) == Join(GetOrEmpty(d, h, session_id))

\* (variant: the `if` left out, a new history stored on every call)
get_chat_history_new(cs, ms, session_id) ==
    LET id == NewId(ms, session_id)
    IN  [cs |-> DictSet(cs, session_id, id), ms |-> DictSet(ms, id, <<>>), ret |-> id]

\* def get_chat_history(session_id): the store and heap after the call, and
\* the object returned
get_chat_history(cs, ms, session_id) ==
    LET id == NewId(ms, session_id)
        cs1 == IF session_id \notin DOMAIN cs THEN DictSet(cs, session_id, id) ELSE cs
        ms1 == IF session_id \notin DOMAIN cs THEN DictSet(ms, id, <<>>) ELSE ms
    IN  [cs |-> cs1, ms |-> ms1, ret |-> cs1[session_id]]

\* (variant: the message put in front of the history)
add_message_front(ms, obj, message) == [ms EXCEPT ![obj] = <<message>> \o @]

\* history.add_message(message), as chain_with_history.invoke does for the
\* input and for the output of the model
add_message(ms, obj, message) == [ms EXCEPT ![obj] = Append(@, message)]

\* ------------------------------------------------------------------ views
\* long_term_memory.get(s, []): the facts of s, [] for a session without entry
LongTerm(s) == GetOrEmpty(long_term_memory, lists, s)

\* what a plain subscript d[k] raises for a key that d does not hold
KeyError(k) == [raised |-> "KeyError", key |-> k]

\* chat_store[s].messages: the turns of the history of s; KeyError for a
\* session without entry, which is not the same as an empty history
ShortTerm(s) ==
    IF s \in DOMAIN chat_store THEN messages[chat_store[s]] ELSE KeyError(s)

\* ------------------------------------------------------------------- Init
Threads == {1, 2}

NoFrame == [op |-> "none", session_id |-> "", input |-> "", ref |-> NoObj,
            obj |-> NoObj, tmp |-> <<>>, seen |-> <<>>, ret |-> "",
            response |-> "", ltm |-> "", raised |-> FALSE]

NoCall == [op |-> "none", session_id |-> "", input |-> "", ret |-> "",
           obj |-> NoObj, raised |-> FALSE, ltm |-> "", seen |-> <<>>]

Init ==
    /\ chat_store = EmptyDict
    /\ long_term_memory = EmptyDict
    /\ messages = EmptyDict
    /\ lists = EmptyDict
    /\ last = NoCall
    /\ calls = 0
    /\ recorded = [s \in Keys |-> <<>>]
    /\ appended = [s \in Keys |-> <<>>]
    /\ pc = [t \in Threads |-> "idle"]
    /\ frame = [t \in Threads |-> NoFrame]

\* --------------------------------------------- calls, one after the other
\* get_chat_history(s)
GetChatHistory(s) ==
    LET r == get_chat_history(chat_store, messages, s)
    IN  /\ chat_store' = r.cs
        /\ messages' = r.ms
        /\ last' = [NoCall EXCEPT !.op = "get_chat_history", !.session_id = s,
                                  !.obj = r.ret]
        /\ UNCHANGED <<long_term_memory, lists, recorded, appended, pc, frame>>

\* update_long_term_memory(s, input, output)
UpdateLongTermMemory(s, input) ==
    LET m == update_long_term_memory(Mem(long_term_memory, lists), s, input)
    IN  /\ long_term_memory' = m.d
        /\ lists' = m.h
        /\ last' = [NoCall EXCEPT !.op = "update_long_term_memory",
                                  !.session_id = s, !.input = input]
        /\ recorded' = [recorded EXCEPT ![s] = Append(@, input)]
        /\ UNCHANGED <<chat_store, messages, appended, pc, frame>>

\* (variant: long_term_memory.setdefault(session_id, []) in place of .get)
GetLongTermMemorySetDefault(s) ==
    LET m == IF s \in DOMAIN long_term_memory THEN Mem(long_term_memory, lists)
             ELSE StoreEmptyList(Mem(long_term_memory, lists), s)
    IN  /\ long_term_memory' = m.d
        /\ lists' = m.h
        /\ last' = [NoCall EXCEPT !.op = "get_long_term_memory", !.session_id = s,
                                  !.ret = get_long_term_memory(m.d, m.h, s),
                                  !.seen = GetOrEmpty(m.d, m.h, s)]
        /\ UNCHANGED <<chat_store, messages, recorded, appended, pc, frame>>

\* get_long_term_memory(s)
GetLongTermMemory(s) ==
    /\ last' = [NoCall EXCEPT !.op = "get_long_term_memory", !.session_id = s,
                              !.ret = get_long_term_memory(long_term_memory, lists, s),
                              !.seen = GetOrEmpty(long_term_memory, lists, s)]
    /\ UNCHANGED <<chat_store, long_term_memory, messages, lists, recorded,
                   appended, pc, frame>>

\* (variant: the input recorded before the long-term memory is rendered)
ChatOkRecordsFirst(input_text, s, response) ==
    LET r == get_chat_history(chat_store, messages, s)
        new == <<HumanMessage(input_text), AIMessage(response)>>
        m == update_long_term_memory(Mem(long_term_memory, lists), s, input_text)
        long_term_mem == get_long_term_memory(m.d, m.h, s)
    IN  /\ chat_store' = r.cs
        /\ messages' = add_message(add_message(r.ms, r.ret, new[1]), r.ret, new[2])
        /\ long_term_memory' = m.d
        /\ lists' = m.h
        /\ last' = [NoCall EXCEPT !.op = "chat", !.session_id = s,
                                  !.input = input_text, !.ret = response,
                                  !.ltm = long_term_mem,
                                  !.seen = GetOrEmpty(m.d, m.h, s)]
        /\ recorded' = [recorded EXCEPT ![s] = Append(@, input_text)]
        /\ appended' = [appended EXCEPT ![s] = @ \o new]
        /\ UNCHANGED <<pc, frame>>

\* (variant: the answer of the model not added to the history)
ChatOkInputOnly(input_text, s, response) ==
    LET long_term_mem == get_long_term_memory(long_term_memory, lists, s)
        r == get_chat_history(chat_store, messages, s)
        new == <<HumanMessage(input_text)>>
        m == update_long_term_memory(Mem(long_term_memory, lists), s, input_text)
    IN  /\ chat_store' = r.cs
        /\ messages' = add_message(r.ms, r.ret, new[1])
        /\ long_term_memory' = m.d
        /\ lists' = m.h
        /\ last' = [NoCall EXCEPT !.op = "chat", !.session_id = s,
                                  !.input = input_text, !.ret = response,
                                  !.ltm = long_term_mem,
                                  !.seen = GetOrEmpty(long_term_memory, lists, s)]
        /\ recorded' = [recorded EXCEPT ![s] = Append(@, input_text)]
        /\ appended' = [appended EXCEPT ![s] = @ \o new]
        /\ UNCHANGED <<pc, frame>>

\* chat(input_text, s), the model answering with response
ChatOk(input_text, s, response) ==
    LET long_term_mem == get_long_term_memory(long_term_memory, lists, s)
        \* chain_with_history.invoke: fetch the history, call the model,
        \* add the input and the output message to the history
        r == get_chat_history(chat_store, messages, s)
        new == <<HumanMessage(input_text), AIMessage(response)>>
        m == update_long_term_memory(Mem(long_term_memory, lists), s, input_text)
    IN  /\ chat_store' = r.cs
        /\ messages' = add_message(add_message(r.ms, r.ret, new[1]), r.ret, new[2])
        /\ long_term_memory' = m.d
        /\ lists' = m.h
        /\ last' = [NoCall EXCEPT !.op = "chat", !.session_id = s,
                                  !.input = input_text, !.ret = response,
                                  !.ltm = long_term_mem,
                                  !.seen = GetOrEmpty(long_term_memory, lists, s)]
        /\ recorded' = [recorded EXCEPT ![s] = Append(@, input_text)]
        /\ appended' = [appended EXCEPT ![s] = @ \o new]
        /\ UNCHANGED <<pc, frame>>

\* (variant: the input recorded although the model call raised)
ChatFailsRecords(input_text, s) ==
    LET long_term_mem == get_long_term_memory(long_term_memory, lists, s)
        r == get_chat_history(chat_store, messages, s)
        m == update_long_term_memory(Mem(long_term_memory, lists), s, input_text)
    IN  /\ chat_store' = r.cs
        /\ messages' = r.ms
        /\ long_term_memory' = m.d
        /\ lists' = m.h
        /\ last' = [NoCall EXCEPT !.op = "chat", !.session_id = s,
                                  !.input = input_text, !.raised = TRUE,
                                  !.ltm = long_term_mem,
                                  !.seen = GetOrEmpty(long_term_memory, lists, s)]
        /\ UNCHANGED <<recorded, appended, pc, frame>>

\* chat(input_text, s), the model call raising
ChatFails(input_text, s) ==
    LET long_term_mem == get_long_term_memory(long_term_memory, lists, s)
        r == get_chat_history(chat_store, messages, s)
    IN  /\ chat_store' = r.cs
        /\ messages' = r.ms
        /\ last' = [NoCall EXCEPT !.op = "chat", !.session_id = s,
                                  !.input = input_text, !.raised = TRUE,
                                  !.ltm = long_term_mem,
                                  !.seen = GetOrEmpty(long_term_memory, lists, s)]
        /\ UNCHANGED <<long_term_memory, lists, recorded, appended, pc, frame>>

\* the caller of Spec makes at most MaxCalls calls
Counted == calls < MaxCalls /\ calls' = calls + 1

CallGetChatHistory == \E s \in SessionIds : Counted /\ GetChatHistory(s)
CallUpdate == \E s \in SessionIds, i \in Inputs : Counted /\ UpdateLongTermMemory(s, i)
CallGetLongTerm == \E s \in SessionIds : Counted /\ GetLongTermMemory(s)
CallChatOk == \E s \in SessionIds, i \in Inputs, r \in Responses :
                  Counted /\ ChatOk(i, s, r)
CallChatFails == \E s \in SessionIds, i \in Inputs : Counted /\ ChatFails(i, s)

Next ==
    \/ CallGetChatHistory
    \/ CallUpdate
    \/ CallGetLongTerm
    \/ CallChatOk
    \/ CallChatFails

Spec == Init /\ [][Next]_vars

\* ------------------------------------- long-term calls only, a longer run
Records == Len(recorded["user_123"]) + Len(recorded["user_456"])

FifoUpdate == \E s \in SessionIds, i \in FifoInputs :
                  Records < MaxRecords /\ UpdateLongTermMemory(s, i) /\ UNCHANGED calls
FifoGet == \E s \in SessionIds : GetLongTermMemory(s) /\ UNCHANGED calls

NextFifo == FifoUpdate \/ FifoGet

SpecFifo == Init /\ [][NextFifo]_vars

\* ----------------------------------- a caller that passes the empty string
EmptyIdKeys == {EmptyId, "user_123"}

EmptyIdGetChatHistory == \E s \in EmptyIdKeys : Counted /\ GetChatHistory(s)
EmptyIdUpdate == \E s \in EmptyIdKeys, i \in Inputs : Counted /\ UpdateLongTermMemory(s, i)
EmptyIdGetLongTerm == \E s \in EmptyIdKeys : Counted /\ GetLongTermMemory(s)
EmptyIdChatOk == \E s \in EmptyIdKeys, i \in Inputs, r \in Responses :
                     Counted /\ ChatOk(i, s, r)
EmptyIdChatFails == \E s \in EmptyIdKeys, i \in Inputs : Counted /\ ChatFails(i, s)

NextEmptyId ==
    \/ EmptyIdGetChatHistory
    \/ EmptyIdUpdate
    \/ EmptyIdGetLongTerm
    \/ EmptyIdChatOk
    \/ EmptyIdChatFails

SpecEmptyId == Init /\ [][NextEmptyId]_vars

\* ------------------------------------------------- threads, line by line
\* A thread runs one call at a time and may be preempted between any two
\* lines, and between loading an object from a dictionary and using it.
MaxConcCalls == 2
\* each thread supplies an input of its own
ConcInput(t) == IF t = 1 THEN Hello ELSE Weather
\* the facts a session may already hold when the threads start
Prefill == <<Hello, Weather, Remember, Exactly21, Hello>>

RECURSIVE Replay(_, _, _)
Replay(m, s, inputs) ==
    IF inputs = <<>> THEN m
    ELSE Replay(update_long_term_memory(m, s, Head(inputs)), s, Tail(inputs))

InitConc ==
    \E pre \in {<<>>, Prefill} :
        LET m == Replay(Mem(EmptyDict, EmptyDict), "user_123", pre)
        IN  /\ chat_store = EmptyDict
            /\ long_term_memory = m.d
            /\ messages = EmptyDict
            /\ lists = m.h
            /\ last = NoCall
            /\ calls = 0
            /\ recorded = [s \in Keys |-> IF s = "user_123" THEN pre ELSE <<>>]
            /\ appended = [s \in Keys |-> <<>>]
            /\ pc = [t \in Threads |-> "idle"]
            /\ frame = [t \in Threads |-> NoFrame]

Goto(t, label) == pc' = [pc EXCEPT ![t] = label]
Entry(op) == CASE op = "get_chat_history" -> "h131"
               [] op = "update_long_term_memory" -> "u136"
               [] op = "get_long_term_memory" -> "g144"
               [] op = "chat" -> "g144"

\* a thread calls op(s, i)
Invoke(t, op, s, i) ==
    /\ pc[t] = "idle"
    /\ calls < MaxConcCalls
    /\ calls' = calls + 1
    /\ frame' = [frame EXCEPT ![t] = [NoFrame EXCEPT !.op = op,
                                      !.session_id = s, !.input = i]]
    /\ Goto(t, Entry(op))
    /\ UNCHANGED <<chat_store, long_term_memory, messages, lists, last,
                   recorded, appended>>

\* if session_id not in chat_store:
H131(t) ==
    /\ pc[t] = "h131"
    /\ Goto(t, IF frame[t].session_id \notin DOMAIN chat_store THEN "h132" ELSE "h133")
    /\ UNCHANGED <<chat_store, long_term_memory, messages, lists, last, calls,
                   recorded, appended, frame>>

\* chat_store[session_id] = ChatMessageHistory()
H132(t) ==
    /\ pc[t] = "h132"
    /\ LET id == NewId(messages, frame[t].session_id)
       IN  /\ chat_store' = DictSet(chat_store, frame[t].session_id, id)
           /\ messages' = DictSet(messages, id, <<>>)
    /\ Goto(t, "h133")
    /\ UNCHANGED <<long_term_memory, lists, last, calls, recorded, appended, frame>>

\* return chat_store[session_id]
H133(t) ==
    /\ pc[t] = "h133"
    /\ frame' = [frame EXCEPT ![t].obj = chat_store[frame[t].session_id]]
    /\ Goto(t, IF frame[t].op = "chat" THEN "c211" ELSE "return")
    /\ UNCHANGED <<chat_store, long_term_memory, messages, lists, last, calls,
                   recorded, appended>>

\* if session_id not in long_term_memory:
U136(t) ==
    /\ pc[t] = "u136"
    /\ Goto(t, IF frame[t].session_id \notin DOMAIN long_term_memory
               THEN "u137" ELSE "u138")
    /\ recorded' = [recorded EXCEPT ![frame[t].session_id] = Append(@, frame[t].input)]
    /\ UNCHANGED <<chat_store, long_term_memory, messages, lists, last, calls,
                   appended, frame>>

\* long_term_memory[session_id] = []
U137(t) ==
    /\ pc[t] = "u137"
    /\ LET m == StoreEmptyList(Mem(long_term_memory, lists), frame[t].session_id)
       IN  long_term_memory' = m.d /\ lists' = m.h
    /\ Goto(t, "u138")
    /\ UNCHANGED <<chat_store, messages, last, calls, recorded, appended, frame>>

\* if len(input) > 20:
U138(t) ==
    /\ pc[t] = "u138"
    /\ Goto(t, IF Accepts(frame[t].input) THEN "u139" ELSE "u140")
    /\ UNCHANGED <<chat_store, long_term_memory, messages, lists, last, calls,
                   recorded, appended, frame>>

\* long_term_memory[session_id]  (the list .append is about to be called on)
U139(t) ==
    /\ pc[t] = "u139"
    /\ frame' = [frame EXCEPT ![t].ref = long_term_memory[frame[t].session_id]]
    /\ Goto(t, "u139_append")
    /\ UNCHANGED <<chat_store, long_term_memory, messages, lists, last, calls,
                   recorded, appended>>

\* .append(f"User said: {input}")
U139Append(t) ==
    /\ pc[t] = "u139_append"
    /\ LET m == AppendInPlace(Mem(long_term_memory, lists), frame[t].ref,
                              Fact(frame[t].input))
       IN  long_term_memory' = m.d /\ lists' = m.h
    /\ Goto(t, "u140")
    /\ UNCHANGED <<chat_store, messages, last, calls, recorded, appended, frame>>

\* long_term_memory[session_id]  (the list len is about to be called on)
U140(t) ==
    /\ pc[t] = "u140"
    /\ frame' = [frame EXCEPT ![t].ref = long_term_memory[frame[t].session_id]]
    /\ Goto(t, "u140_len")
    /\ UNCHANGED <<chat_store, long_term_memory, messages, lists, last, calls,
                   recorded, appended>>

\* if len(...) > 5:
U140Len(t) ==
    /\ pc[t] = "u140_len"
    /\ Goto(t, IF OverCapacity(lists[frame[t].ref]) THEN "u141" ELSE "return")
    /\ UNCHANGED <<chat_store, long_term_memory, messages, lists, last, calls,
                   recorded, appended, frame>>

\* long_term_memory[session_id]  (the list about to be sliced)
U141(t) ==
    /\ pc[t] = "u141"
    /\ frame' = [frame EXCEPT ![t].ref = long_term_memory[frame[t].session_id]]
    /\ Goto(t, "u141_slice")
    /\ UNCHANGED <<chat_store, long_term_memory, messages, lists, last, calls,
                   recorded, appended>>

\* [-5:]
U141Slice(t) ==
    /\ pc[t] = "u141_slice"
    /\ frame' = [frame EXCEPT ![t].tmp = LastFive(lists[frame[t].ref])]
    /\ Goto(t, "u141_store")
    /\ UNCHANGED <<chat_store, long_term_memory, messages, lists, last, calls,
                   recorded, appended>>

\* long_term_memory[session_id] = ...
U141Store(t) ==
    /\ pc[t] = "u141_store"
    /\ LET m == StoreNewList(Mem(long_term_memory, lists), frame[t].session_id,
                             frame[t].tmp)
       IN  long_term_memory' = m.d /\ lists' = m.h
    /\ Goto(t, "return")
    /\ UNCHANGED <<chat_store, messages, last, calls, recorded, appended, frame>>

\* long_term_memory.get(session_id, [])
G144(t) ==
    /\ pc[t] = "g144"
    /\ frame' = [frame EXCEPT ![t].ref =
                    IF frame[t].session_id \in DOMAIN long_term_memory
                    THEN long_term_memory[frame[t].session_id] ELSE NoObj]
    /\ Goto(t, "g144_join")
    /\ UNCHANGED <<chat_store, long_term_memory, messages, lists, last, calls,
                   recorded, appended>>

\* return ". ".join(...)
G144Join(t) ==
    /\ pc[t] = "g144_join"
    /\ LET l == IF frame[t].ref = NoObj THEN <<>> ELSE lists[frame[t].ref]
       IN  frame' = [frame EXCEPT ![t].seen = l, ![t].ret = Join(l),
                                  ![t].ltm = IF frame[t].op = "chat" THEN Join(l) ELSE ""]
    /\ Goto(t, IF frame[t].op = "chat" THEN "h131" ELSE "return")
    /\ UNCHANGED <<chat_store, long_term_memory, messages, lists, last, calls,
                   recorded, appended>>

\* chain_with_history.invoke: the model answers
C211Answers(t, response) ==
    /\ pc[t] = "c211"
    /\ frame' = [frame EXCEPT ![t].response = response]
    /\ Goto(t, "c211_human")
    /\ UNCHANGED <<chat_store, long_term_memory, messages, lists, last, calls,
                   recorded, appended>>

\* chain_with_history.invoke: the model call raises, and so does chat
C211Raises(t) ==
    /\ pc[t] = "c211"
    /\ frame' = [frame EXCEPT ![t].raised = TRUE]
    /\ Goto(t, "return")
    /\ UNCHANGED <<chat_store, long_term_memory, messages, lists, last, calls,
                   recorded, appended>>

\* chain_with_history.invoke: the input message is added to the history
C211Human(t) ==
    /\ pc[t] = "c211_human"
    /\ messages' = add_message(messages, frame[t].obj, HumanMessage(frame[t].input))
    /\ appended' = [appended EXCEPT ![frame[t].session_id] =
                        Append(@, HumanMessage(frame[t].input))]
    /\ Goto(t, "c211_ai")
    /\ UNCHANGED <<chat_store, long_term_memory, lists, last, calls, recorded, frame>>

\* chain_with_history.invoke: the output message is added to the history
C211AI(t) ==
    /\ pc[t] = "c211_ai"
    /\ messages' = add_message(messages, frame[t].obj, AIMessage(frame[t].response))
    /\ appended' = [appended EXCEPT ![frame[t].session_id] =
                        Append(@, AIMessage(frame[t].response))]
    /\ Goto(t, "u136")
    /\ UNCHANGED <<chat_store, long_term_memory, lists, last, calls, recorded, frame>>

\* the call returns to its caller
Return(t) ==
    /\ pc[t] = "return"
    /\ last' = [op |-> frame[t].op, session_id |-> frame[t].session_id,
                input |-> frame[t].input,
                ret |-> IF frame[t].op = "chat" THEN frame[t].response ELSE frame[t].ret,
                obj |-> IF frame[t].op = "get_chat_history" THEN frame[t].obj ELSE NoObj,
                raised |-> frame[t].raised, ltm |-> frame[t].ltm,
                seen |-> frame[t].seen]
    /\ frame' = [frame EXCEPT ![t] = NoFrame]
    /\ Goto(t, "idle")
    /\ UNCHANGED <<chat_store, long_term_memory, messages, lists, calls,
                   recorded, appended>>

ThreadCalls ==
    \E t \in Threads, s \in SessionIds :
        \/ Invoke(t, "get_chat_history", s, "")
        \/ Invoke(t, "get_long_term_memory", s, "")
        \/ Invoke(t, "update_long_term_memory", s, ConcInput(t))
        \/ Invoke(t, "chat", s, ConcInput(t))

NextConc ==
    \/ ThreadCalls
    \/ \E t \in Threads : H131(t)
    \/ \E t \in Threads : H132(t)
    \/ \E t \in Threads : H133(t)
    \/ \E t \in Threads : U136(t)
    \/ \E t \in Threads : U137(t)
    \/ \E t \in Threads : U138(t)
    \/ \E t \in Threads : U139(t)
    \/ \E t \in Threads : U139Append(t)
    \/ \E t \in Threads : U140(t)
    \/ \E t \in Threads : U140Len(t)
    \/ \E t \in Threads : U141(t)
    \/ \E t \in Threads : U141Slice(t)
    \/ \E t \in Threads : U141Store(t)
    \/ \E t \in Threads : G144(t)
    \/ \E t \in Threads : G144Join(t)
    \/ \E t \in Threads, r \in Responses : C211Answers(t, r)
    \/ \E t \in Threads : C211Raises(t)
    \/ \E t \in Threads : C211Human(t)
    \/ \E t \in Threads : C211AI(t)
    \/ \E t \in Threads : Return(t)

SpecConc == InitConc /\ [][NextConc]_vars

\* ================================================================ claims
Min(a, b) == IF a < b THEN a ELSE b
Range(q) == {q[j] : j \in 1..Len(q)}
IsPrefix(p, q) == Len(p) <= Len(q) /\ \A j \in 1..Len(p) : p[j] = q[j]
LongerThan20(i) == Len(i) > 20

\* the inputs recorded for s that are longer than 20 characters, in order
AcceptedInputs(s) == SelectSeq(recorded[s], LongerThan20)

\* the last min(k, 5) of them, each as "User said: <input>"
ExpectedFacts(s) ==
    LET a == AcceptedInputs(s)
        k == Min(Len(a), 5)
    IN  [j \in 1..k |-> "User said: " \o a[Len(a) - k + j]]

\* C1: whatever inputs were recorded, accepted or rejected, on whatever
\* sessions, every session's long-term store holds at most 5 facts once
\* the call has returned.
C1_AtMostFive == \A s \in SessionIds : Len(LongTerm(s)) <= 5

\* more than five accepted inputs were recorded for a session, which holds five
C1_Witness ==
    \E s \in SessionIds : Len(AcceptedInputs(s)) >= 6 /\ Len(LongTerm(s)) = 5

\* C2: the long-term store of a session is the last min(k, 5) accepted
\* inputs in the order they were recorded, each as "User said: <input>";
\* rejected inputs in between change nothing.
C2_LastFiveAccepted == \A s \in SessionIds : LongTerm(s) = ExpectedFacts(s)

\* seven accepted inputs f1..f7 were recorded for a session, which holds f3..f7
C2_Witness ==
    \E s \in SessionIds :
        /\ recorded[s] = <<Hello, Weather, Remember, Hello, Remember, Weather, Hello>>
        /\ LongTerm(s) = <<"User said: Do you remember my name?",
                           "User said: Hello! My name is Alice.",
                           "User said: Do you remember my name?",
                           "User said: What's the weather like today?",
                           "User said: Hello! My name is Alice.">>

\* the newest input recorded for s in this step, if there is one
JustRecorded(s) == recorded'[s] # recorded[s]
NewestInput(s) == recorded'[s][Len(recorded'[s])]
KeepLastFive(q) == IF Len(q) <= 5 THEN q ELSE SubSeq(q, Len(q) - 4, Len(q))

\* C3: an input is retained iff it has more than 20 characters: recording
\* an input of 20 characters (or fewer) adds no fact, recording one of 21
\* (or more) adds the one fact "User said: <input>" at the end of the store.
C3_RetentionBoundary ==
    [][\A s \in SessionIds :
          JustRecorded(s) =>
              /\ Len(NewestInput(s)) <= 20 => LongTerm(s)' = LongTerm(s)
              /\ Len(NewestInput(s)) >= 21 =>
                    LongTerm(s)' = KeepLastFive(Append(LongTerm(s),
                                        "User said: " \o NewestInput(s)))]_vars

\* the 20-character input left the store alone, the 21-character one is in it
C3_Witness ==
    \E s \in SessionIds :
        /\ recorded[s] = <<Hello, Exactly20, Exactly21>>
        /\ LongTerm(s) = <<"User said: Hello! My name is Alice.",
                           "User said: 123456789012345678901">>

\* C4: recording an input the policy rejects returns normally and leaves the
\* session's facts and its rendered long-term memory as they were; nothing
\* is evicted, whatever the state of the session.
C4_RejectedIsNoOp ==
    [][\A s \in SessionIds :
          (JustRecorded(s) /\ Len(NewestInput(s)) <= 20) =>
              /\ LongTerm(s)' = LongTerm(s)
              /\ get_long_term_memory(long_term_memory, lists, s)'
                    = get_long_term_memory(long_term_memory, lists, s)
              /\ ~last'.raised]_vars

\* a rejected input was recorded for a session holding five facts
C4_Witness ==
    \E s \in SessionIds :
        /\ last.op = "update_long_term_memory"
        /\ last.session_id = s
        /\ Len(last.input) <= 20
        /\ Len(LongTerm(s)) = 5

\* the thread taking this step, and the session its call is on
Acting(t) == pc'[t] # pc[t]
ActingSession(t) ==
    IF pc[t] = "idle" THEN frame'[t].session_id ELSE frame[t].session_id
\* the facts made of the inputs supplied for session b
FactsOf(b) == {"User said: " \o i : i \in Range(recorded[b])}

\* the session has a history, so that reading its turns does not raise
HasHistory(s) == s \in DOMAIN chat_store

\* C5: a step of a call on one session, run alone or interleaved with other
\* calls, changes neither the short-term buffer nor the long-term store of
\* any other session, and what a session holds or renders is made only of
\* the inputs and turns supplied for that session.
C5_Isolation ==
    [][\A b \in SessionIds :
          /\ \A t \in Threads :
                (Acting(t) /\ ActingSession(t) # b) =>
                    /\ HasHistory(b)' = HasHistory(b)
                    /\ HasHistory(b) => ShortTerm(b)' = ShortTerm(b)
                    /\ LongTerm(b)' = LongTerm(b)
                    /\ (b \in DOMAIN long_term_memory)' = (b \in DOMAIN long_term_memory)
          /\ (Range(LongTerm(b)) \subseteq FactsOf(b))'
          /\ (HasHistory(b) => Range(ShortTerm(b)) \subseteq Range(appended[b]))'
          /\ (~HasHistory(b) => appended[b] = <<>>)'
          /\ (last.session_id = b => Range(last.seen) \subseteq FactsOf(b))']_vars

\* two calls on different sessions are in progress and each has written
C5_Witness ==
    /\ pc[1] = "u140" /\ frame[1].session_id = "user_123"
    /\ pc[2] = "c211_ai" /\ frame[2].session_id = "user_456"
    /\ LongTerm("user_123") = <<"User said: Hello! My name is Alice.">>
    /\ HasHistory("user_456")
    /\ ShortTerm("user_456") = <<[type |-> "human", content |-> Weather]>>
    /\ LongTerm("user_456") = <<>>

\* C6: the first get_chat_history for a session creates an empty history;
\* every later call returns that same object with the turns accumulated so
\* far, and no call ever replaces the object stored for a session.
C6_SameInstance ==
    [][\A s \in SessionIds :
          /\ (s \in DOMAIN chat_store) =>
                (s \in DOMAIN chat_store)' /\ chat_store'[s] = chat_store[s]
          /\ (last'.op = "get_chat_history" /\ last'.session_id = s
                /\ calls' = calls + 1) =>
                /\ last'.obj = chat_store'[s]
                /\ messages'[last'.obj] = appended'[s]
                /\ IF s \in DOMAIN chat_store
                   THEN /\ last'.obj = chat_store[s]
                        /\ messages'[last'.obj] = messages[chat_store[s]]
                   ELSE /\ last'.obj \notin DOMAIN messages
                        /\ messages'[last'.obj] = <<>>]_vars

\* get_chat_history returned, after a chat, the history holding its two turns
C6_Witness ==
    /\ last.op = "get_chat_history"
    /\ calls >= 3
    /\ messages[last.obj] = <<[type |-> "human", content |-> Exactly21],
                              [type |-> "ai", content |-> "Hello, Alice! How can I assist you today?"]>>

\* q[1], q[2], ... q[n] with ". " between neighbours
RECURSIVE DotJoined(_, _)
DotJoined(q, n) ==
    IF n = 0 THEN ""
    ELSE IF n = 1 THEN q[1]
    ELSE DotJoined(q, n - 1) \o ". " \o q[n]

\* C7: get_long_term_memory returns the facts of the session, oldest first,
\* with ". " between them, and "" for a session without facts or never
\* seen; for the four inputs of the example it returns the three accepted
\* ones in input order.
C7_Render ==
    last.op = "get_long_term_memory" =>
        LET s == last.session_id
        IN  /\ last.ret = DotJoined(ExpectedFacts(s), Len(ExpectedFacts(s)))
            /\ (AcceptedInputs(s) = <<>>) => last.ret = ""
            /\ (recorded[s] = <<Hello, Weather, Sunny, Remember>>) =>
                  last.ret = "User said: Hello! My name is Alice.. User said: What's the weather like today?. User said: Do you remember my name?"

\* the long-term memory of the example was rendered
C7_Witness ==
    /\ last.op = "get_long_term_memory"
    /\ recorded[last.session_id] = <<Hello, Weather, Sunny, Remember>>
    /\ last.ret = "User said: Hello! My name is Alice.. User said: What's the weather like today?. User said: Do you remember my name?"

\* C8: the short-term buffer only grows at its end: in every step the old
\* contents are a prefix of the new ones, and the buffer is exactly the
\* turns handed to it, in the order they were handed over.  A session has
\* no buffer to read before its first get_chat_history, and no turn has
\* been handed over for it then; once it has one it keeps having one.
C8_AppendOnly ==
    [][\A s \in SessionIds :
          /\ HasHistory(s) =>
                /\ HasHistory(s)'
                /\ IsPrefix(ShortTerm(s), ShortTerm(s)')
          /\ HasHistory(s)' => ShortTerm(s)' = appended'[s]
          /\ ~HasHistory(s)' => appended'[s] = <<>>]_vars

\* two chats on a session left their four turns in order
C8_Witness ==
    \E s \in SessionIds :
        /\ HasHistory(s)
        /\ ShortTerm(s) = <<[type |-> "human", content |-> Exactly21],
                             [type |-> "ai", content |-> "Hello, Alice! How can I assist you today?"],
                             [type |-> "human", content |-> Exactly20],
                             [type |-> "ai", content |-> "Hello, Alice! How can I assist you today?"]>>

Quiescent == \A t \in Threads : pc[t] = "idle"
Distinct(q) == \A i, j \in 1..Len(q) : i # j => q[i] # q[j]

\* C9: once N update_long_term_memory calls with distinct accepted inputs,
\* interleaved in any way, have all returned, the store of the session
\* holds min(N, 5) entries, each the fact of one call, and for N <= 5 the
\* fact of every call.
C9_ConcurrentRecords ==
    \A s \in SessionIds :
        (/\ Quiescent
         /\ Distinct(recorded[s])
         /\ \A j \in 1..Len(recorded[s]) : LongerThan20(recorded[s][j])) =>
            /\ Len(LongTerm(s)) = Min(Len(recorded[s]), 5)
            /\ Range(LongTerm(s)) \subseteq FactsOf(s)
            /\ Len(recorded[s]) <= 5 => FactsOf(s) \subseteq Range(LongTerm(s))

\* C10: what get_long_term_memory returns while update_long_term_memory
\* calls run on the same session is a store some sequential order of the
\* calls produces: never more than 5 facts, never a store appended to and
\* not yet trimmed.
C10_NoMidEvictionRead ==
    last.op = "get_long_term_memory" =>
        /\ Len(last.seen) <= 5
        /\ Range(last.seen) \subseteq FactsOf(last.session_id)

\* C11: a session id has one history and one fact list for good, also when
\* two callers make the first access together: the history stored for a
\* session is never replaced, and its fact list is replaced only by its own
\* last five facts when it holds more than five.
C11_OneInstancePerSession ==
    [][\A s \in SessionIds :
          /\ (s \in DOMAIN chat_store) => chat_store'[s] = chat_store[s]
          /\ (s \in DOMAIN long_term_memory
                /\ long_term_memory'[s] # long_term_memory[s]) =>
                /\ Len(LongTerm(s)) > 5
                /\ LongTerm(s)' = KeepLastFive(LongTerm(s))]_vars

\* C12: a call with the empty session id fails and changes nothing: the
\* empty string never becomes a key of chat_store or of long_term_memory,
\* and every call made with it has raised.
C12_EmptyIdRejected ==
    /\ EmptyId \notin DOMAIN chat_store
    /\ EmptyId \notin DOMAIN long_term_memory
    /\ (last.op # "none" /\ last.session_id = EmptyId) => last.raised

\* C13: the two tiers of a session are created together: in every state a
\* session id is a key of chat_store if and only if it is a key of
\* long_term_memory, and when get_chat_history has returned for an id, that
\* id has a long-term store too.
C13_TiersCreatedTogether ==
    /\ \A s \in SessionIds :
          (s \in DOMAIN chat_store) <=> (s \in DOMAIN long_term_memory)
    /\ last.op = "get_chat_history" =>
          last.session_id \in DOMAIN long_term_memory

\* C14: a session that has an entry in chat_store or in long_term_memory
\* has that entry in every later state; no operation removes a session.
C14_EntriesStay ==
    [][\A s \in SessionIds :
          /\ (s \in DOMAIN chat_store) => (s \in DOMAIN chat_store)'
          /\ (s \in DOMAIN long_term_memory) => (s \in DOMAIN long_term_memory)']_vars

\* both sessions have both entries after the fourth call
C14_Witness ==
    /\ calls >= 4
    /\ DOMAIN chat_store = SessionIds
    /\ DOMAIN long_term_memory = SessionIds

\* a call of chat on s returns normally in this step
ChatReturns(s) ==
    /\ calls' = calls + 1
    /\ last'.op = "chat"
    /\ last'.session_id = s
    /\ ~last'.raised

\* C15: chat renders the long-term memory before the model is called and
\* records the input only afterwards: the string given to the model is made
\* of the facts recorded by earlier calls, without the fact of this call,
\* and once chat has returned an accepted input is the newest fact.
C15_RenderBeforeRecord ==
    [][\A s \in SessionIds :
          ChatReturns(s) =>
              /\ last'.seen = ExpectedFacts(s)
              /\ last'.ltm = DotJoined(ExpectedFacts(s), Len(ExpectedFacts(s)))
              /\ recorded'[s] = Append(recorded[s], last'.input)
              /\ Len(last'.input) > 20 =>
                    /\ LongTerm(s)' # <<>>
                    /\ LongTerm(s)'[Len(LongTerm(s)')] = "User said: " \o last'.input]_vars

\* the model was given the earlier fact alone; the store then has both
C15_Witness ==
    \E s \in SessionIds :
        /\ last.op = "chat" /\ last.session_id = s /\ ~last.raised
        /\ last.input = Hello
        /\ last.ltm = "User said: 123456789012345678901"
        /\ LongTerm(s) = <<"User said: 123456789012345678901",
                           "User said: Hello! My name is Alice.">>

\* C16: when the model call inside chat raises, chat raises and
\* update_long_term_memory is not run: the long-term dictionary and every
\* fact list are as before the call, also for an input longer than 20
\* characters.
C16_FailedChatRecordsNothing ==
    [][\A s \in Keys :
          (calls' = calls + 1 /\ last'.op = "chat" /\ last'.session_id = s
             /\ last'.raised) =>
              /\ LongTerm(s)' = LongTerm(s)
              /\ long_term_memory' = long_term_memory
              /\ lists' = lists
              /\ recorded' = recorded
              /\ last'.ret = ""]_vars

\* chat raised for an input that would have been retained
C16_Witness ==
    \E s \in SessionIds :
        /\ last.op = "chat" /\ last.session_id = s /\ last.raised
        /\ last.input = Hello
        /\ LongTerm(s) = <<"User said: 123456789012345678901">>

\* C17: get_long_term_memory only reads: it leaves both dictionaries and
\* both heaps as they were, creates no entry for a session never seen (for
\* which it returns ""), and called again right away it returns the same
\* string.
C17_PureRead ==
    [][\A s \in SessionIds :
          (calls' = calls + 1 /\ last'.op = "get_long_term_memory"
             /\ last'.session_id = s) =>
              /\ chat_store' = chat_store
              /\ long_term_memory' = long_term_memory
              /\ messages' = messages
              /\ lists' = lists
              /\ (s \notin DOMAIN long_term_memory) =>
                    (s \notin DOMAIN long_term_memory' /\ last'.ret = "")
              /\ (last.op = "get_long_term_memory" /\ last.session_id = s) =>
                    last'.ret = last.ret]_vars

\* the memory of a session never seen was rendered and the session is still
\* unseen, while the other session holds a fact
C17_Witness ==
    /\ last.op = "get_long_term_memory"
    /\ last.session_id = "user_456"
    /\ last.ret = ""
    /\ "user_456" \notin DOMAIN long_term_memory
    /\ "user_456" \notin DOMAIN chat_store
    /\ LongTerm("user_123") = <<"User said: Hello! My name is Alice.">>

\* human, ai, human, ai, ...
Alternating(q) ==
    /\ Len(q) % 2 = 0
    /\ \A j \in 1..Len(q) : q[j].type = (IF j % 2 = 1 THEN "human" ELSE "ai")

\* C18: a chat that returns adds exactly two turns to the buffer of its
\* session, the input and then the answer, and at most one fact to its
\* store; nothing else adds turns, so after k such chats the buffer holds
\* 2k turns, human and ai in turn, whether or not the inputs were retained.
\* The first chat of a session finds no buffer and leaves one with its two
\* turns; a step that creates the buffer without a returning chat leaves
\* it empty.
C18_TwoTurnsPerChat ==
    [][\A s \in SessionIds :
          /\ ChatReturns(s) =>
                /\ HasHistory(s)'
                /\ ShortTerm(s)' =
                      (IF HasHistory(s) THEN ShortTerm(s) ELSE <<>>) \o
                      <<[type |-> "human", content |-> last'.input],
                        [type |-> "ai", content |-> last'.ret]>>
                /\ Len(LongTerm(s)') <= Len(LongTerm(s)) + 1
          /\ ~ChatReturns(s) =>
                /\ HasHistory(s) => HasHistory(s)' /\ ShortTerm(s)' = ShortTerm(s)
                /\ (~HasHistory(s) /\ HasHistory(s)') => ShortTerm(s)' = <<>>
          /\ HasHistory(s)' => Alternating(ShortTerm(s)')]_vars

\* four chats on a session, one of them with an input that is not retained
C18_Witness ==
    \E s \in SessionIds :
        /\ HasHistory(s)
        /\ Len(ShortTerm(s)) = 8
        /\ ShortTerm(s)[3] = [type |-> "human", content |-> Exactly20]
        /\ Len(LongTerm(s)) = 3
====
